---- MODULE Spec2Model ----
(***************************************************************************)
(* Model of the three tools of src/tools/optimizer_tools.py:               *)
(*   validate_constraints, optimize_seating, explain_solution.             *)
(* Each tool is a pure function of its arguments.  A behaviour is one tool *)
(* call: the initial state holds the arguments, the single step of the     *)
(* tool's action stores what the call returns (or the exception it raises).*)
(* Python dicts are records / functions, Python lists are sequences, and   *)
(* a 0-based grid index (row, col) is the pair <<row, col>>; the chart     *)
(* itself is a list of rows, so chart[row][col] is Cell(chart, row, col).  *)
(***************************************************************************)
EXTENDS Integers, Sequences, FiniteSets, TLC

VARIABLES
    pc,             \* "call" before the tool has run, "done" after
    tool,           \* which of the three tools is being called
    rows,           \* classroom_size / classroom_layout ['rows']
    columns,        \* classroom_size / classroom_layout ['columns']
    num_students,   \* validate_constraints argument
    students,       \* optimize_seating argument: the list of student ids
    constraints,    \* the list of constraint dicts
    seating_chart,  \* explain_solution argument
    result          \* the returned dict (or the raised exception)

vars == <<pc, tool, rows, columns, num_students, students, constraints,
          seating_chart, result>>

----------------------------------------------------------------------------
(* Bounds of the input space *)

MaxDim == 3
MaxStudents == 2
MaxConstraints == 2

(* Python's None: the value of dict.get on a missing key, an empty cell *)
None == "None"

IdNames == <<"A", "B", "C", "D", "E">>
StudentIds == {IdNames[i] : i \in 1..MaxStudents}

Dims == -1..MaxDim

UnaryTypes == {"must_front_row", "cannot_back_row", "near_door", "near_window",
               "cannot_by_window", "cannot_by_door", None}

(* A constraint dict, read only through .get: a missing key reads as None *)
Pairwise(a, b) ==
    [type |-> "cannot_sit_together", student1 |-> a, student2 |-> b, student |-> None]
Unary(t, s) ==
    [type |-> t, student1 |-> None, student2 |-> None, student |-> s]

ConstraintDicts ==
    {Pairwise(a, b) : a \in StudentIds, b \in StudentIds}
        \cup {Unary(t, s) : t \in UnaryTypes, s \in StudentIds}

SeqsUpTo(S, n) == UNION {[1..k -> S] : k \in 0..n}

ConstraintLists == SeqsUpTo(ConstraintDicts, MaxConstraints)

----------------------------------------------------------------------------
(* Helpers for Python built-ins *)

Abs(x) == IF x < 0 THEN 0 - x ELSE x
Max(x, y) == IF x >= y THEN x ELSE y

(* range(n): empty when n <= 0 *)
Range(n) == 0..(n - 1)

NoResult == [pending |-> TRUE]

----------------------------------------------------------------------------
(* validate_constraints *)

constraint_type_or_unknown(c) == IF c.type = None THEN "unknown" ELSE c.type

constraint_counts(cs) ==
    [t \in {constraint_type_or_unknown(cs[i]) : i \in DOMAIN cs} |->
        Cardinality({i \in DOMAIN cs : constraint_type_or_unknown(cs[i]) = t})]

IsFrontRow(c) == constraint_type_or_unknown(c) = "must_front_row"
IsBackRow(c) == constraint_type_or_unknown(c) = "cannot_back_row"

front_row_requirements(cs) == Cardinality({i \in DOMAIN cs : IsFrontRow(cs[i])})
back_row_exclusions(cs) == Cardinality({i \in DOMAIN cs : IsBackRow(cs[i])})

(* capacity check with >= in place of > *)
CapacityExceeded_OffByOne(n, r, c) == n >= r * c

CapacityExceeded(n, r, c) == n > r * c

FrontRowWarning(cs, c) ==
    IF front_row_requirements(cs) > c
    THEN << <<"Front row has only", c, front_row_requirements(cs)>> >>
    ELSE << >>

BackRowWarning(cs, r, c) ==
    IF back_row_exclusions(cs) + front_row_requirements(cs) > (r - 1) * c
    THEN << <<"Too many students excluding back row">> >>
    ELSE << >>

validation_info(n, r, c) ==
    [total_seats |-> r * c, students |-> n, available_seats |-> r * c - n]

validate_result(r, c, n, cs) ==
    IF CapacityExceeded(n, r, c)
    THEN [valid |-> FALSE,
          warnings |-> << >>,
          errors |-> << <<"Not enough seats", n, r * c>> >>,
          info |-> validation_info(n, r, c)]
    ELSE [valid |-> TRUE,
          warnings |-> FrontRowWarning(cs, c) \o BackRowWarning(cs, r, c),
          errors |-> << >>,
          info |-> validation_info(n, r, c),
          constraint_summary |-> constraint_counts(cs)]

InitValidate ==
    /\ pc = "call"
    /\ tool = "validate_constraints"
    /\ rows \in Dims
    /\ columns \in Dims
    /\ num_students \in 0..(MaxStudents + 1)
    /\ students = << >>
    /\ constraints \in ConstraintLists
    /\ seating_chart = << >>
    /\ result = NoResult

validate_constraints ==
    /\ pc = "call"
    /\ tool = "validate_constraints"
    /\ result' = validate_result(rows, columns, num_students, constraints)
    /\ pc' = "done"
    /\ UNCHANGED <<tool, rows, columns, num_students, students, constraints,
                   seating_chart>>

NextValidate == validate_constraints

SpecValidate == InitValidate /\ [][NextValidate]_vars

----------------------------------------------------------------------------
(* optimize_seating: the CP-SAT model *)

Seats(r, c) == Range(r) \X Range(c)

student_id_set(ss) == {ss[i] : i \in DOMAIN ss}

(* keys of the `seats` dict: one boolean variable per (student_id, row, col) *)
SeatKeys(ss, r, c) ==
    {<<s, p[1], p[2]>> : s \in student_id_set(ss), p \in Seats(r, c)}

(* neighbours without the diagonals *)
Adjacent_NoDiagonals(r, c, row, col) ==
    {<<row - 1, col>>, <<row + 1, col>>, <<row, col - 1>>, <<row, col + 1>>}
        \cap Seats(r, c)

(* the up-to-8 neighbours of (row, col), clipped at the grid edges *)
Adjacent(r, c, row, col) ==
    {<<row + dr, col + dc>> : dr \in {-1, 0, 1}, dc \in {-1, 0, 1}}
        \cap (Seats(r, c) \ {<<row, col>>})

(* the keys of `seats` that compiling a constraint subscripts *)
Lookups(k, r, c) ==
    CASE k.type = "cannot_sit_together" ->
            {<<k.student1, p[1], p[2]>> :
                p \in {x \in Seats(r, c) : Adjacent(r, c, x[1], x[2]) # {}}}
            \cup {<<k.student2, q[1], q[2]>> :
                q \in UNION {Adjacent(r, c, x[1], x[2]) : x \in Seats(r, c)}}
      [] k.type = "must_front_row" -> {<<k.student, 0, col>> : col \in Range(c)}
      [] k.type = "cannot_back_row" -> {<<k.student, r - 1, col>> : col \in Range(c)}
      [] k.type = "cannot_by_window" -> {<<k.student, row, c - 1>> : row \in Range(r)}
      [] k.type = "cannot_by_door" -> {<<k.student, row, 0>> : row \in Range(r)}
      [] OTHER -> {}

(* subscripting `seats` with a key it does not hold raises KeyError *)
RaisesKeyError(ss, r, c, cs) ==
    \E i \in DOMAIN cs : ~(Lookups(cs[i], r, c) \subseteq SeatKeys(ss, r, c))

(* A valuation of the boolean variables that satisfies "each student sits in
   exactly one seat" is a function from the student ids to the seats:
   seats[(s, row, col)] is true exactly when the function maps s to (row, col).
   There is none when a student exists and the grid has no seat. *)
Assignments(ss, r, c) == [student_id_set(ss) -> Seats(r, c)]

Value(f, s, row, col) == f[s] = <<row, col>>

(* seats that accept two students *)
SeatHoldsAtMostOne_Two(f, ss, r, c) ==
    \A p \in Seats(r, c) :
        Cardinality({i \in DOMAIN ss : Value(f, ss[i], p[1], p[2])}) <= 2

(* sum(seats[(s['id'], row, col)] for s in students) <= 1, one term per list
   element, so a student id listed twice counts twice *)
SeatHoldsAtMostOne(f, ss, r, c) ==
    \A p \in Seats(r, c) :
        Cardinality({i \in DOMAIN ss : Value(f, ss[i], p[1], p[2])}) <= 1

(* AddBoolOr([seats[(student1, row, col)].Not(), seats[(student2, adj)].Not()])
   for every cell and every neighbour of the cell *)
cannot_sit_together_clauses(f, k, r, c) ==
    \A p \in Seats(r, c) : \A q \in Adjacent(r, c, p[1], p[2]) :
        ~Value(f, k.student1, p[1], p[2]) \/ ~Value(f, k.student2, q[1], q[2])

(* sum(seats[(student, 0, c)] for c in range(columns)) == 1 *)
must_front_row_clause(f, k, r, c) ==
    Cardinality({col \in Range(c) : Value(f, k.student, 0, col)}) = 1

(* back row taken to be row `rows`, one past the last row *)
cannot_back_row_clause_OffByOne(f, k, r, c) ==
    Cardinality({col \in Range(c) : Value(f, k.student, r, col)}) = 0

(* sum(seats[(student, rows-1, c)] for c in range(columns)) == 0 *)
cannot_back_row_clause(f, k, r, c) ==
    Cardinality({col \in Range(c) : Value(f, k.student, r - 1, col)}) = 0

(* sum(seats[(student, r, columns-1)] for r in range(rows)) == 0 *)
cannot_by_window_clause(f, k, r, c) ==
    Cardinality({row \in Range(r) : Value(f, k.student, row, c - 1)}) = 0

(* sum(seats[(student, r, 0)] for r in range(rows)) == 0 *)
cannot_by_door_clause(f, k, r, c) ==
    Cardinality({row \in Range(r) : Value(f, k.student, row, 0)}) = 0

(* the if/elif chain over constraint_type; near_door, near_window and any
   other type add nothing to the model *)
ConstraintClauses(f, k, r, c) ==
    CASE k.type = "cannot_sit_together" -> cannot_sit_together_clauses(f, k, r, c)
      [] k.type = "must_front_row" -> must_front_row_clause(f, k, r, c)
      [] k.type = "cannot_back_row" -> cannot_back_row_clause(f, k, r, c)
      [] k.type = "cannot_by_window" -> cannot_by_window_clause(f, k, r, c)
      [] k.type = "cannot_by_door" -> cannot_by_door_clause(f, k, r, c)
      [] OTHER -> TRUE

(* the satisfying valuations of the whole model *)
Solutions(ss, r, c, cs) ==
    {f \in Assignments(ss, r, c) :
        /\ SeatHoldsAtMostOne(f, ss, r, c)
        /\ \A i \in DOMAIN cs : ConstraintClauses(f, cs[i], r, c)}

(* the chart is filled student by student: a later student of the list
   overwrites an earlier one in the same cell *)
ChartCell(f, ss, row, col) ==
    LET here == {i \in DOMAIN ss : Value(f, ss[i], row, col)}
    IN  IF here = {} THEN None
        ELSE ss[CHOOSE i \in here : \A j \in here : j <= i]

build_chart(f, ss, r, c) ==
    [row1 \in 1..r |-> [col1 \in 1..c |-> ChartCell(f, ss, row1 - 1, col1 - 1)]]

SolvedStatuses == {"OPTIMAL", "FEASIBLE"}

success_result(f, st, ss, r, c, cs) ==
    [success |-> TRUE,
     status |-> IF st = "OPTIMAL" THEN "optimal" ELSE "feasible",
     seating_chart |-> build_chart(f, ss, r, c),
     layout |-> [rows |-> r, columns |-> c],
     statistics |-> [constraints_satisfied |-> Len(cs)]]

infeasible_result ==
    [success |-> FALSE,
     status |-> "infeasible",
     message |-> "Could not find a valid seating arrangement",
     seating_chart |-> None]

KeyErrorRaised == [exception |-> "KeyError"]

InitOptimize ==
    /\ pc = "call"
    /\ tool = "optimize_seating"
    /\ rows \in Dims
    /\ columns \in Dims
    /\ num_students = 0
    /\ students \in SeqsUpTo(StudentIds, MaxStudents)
    /\ constraints \in ConstraintLists
    /\ seating_chart = << >>
    /\ result = NoResult

optimize_seating ==
    /\ pc = "call"
    /\ tool = "optimize_seating"
    /\ IF RaisesKeyError(students, rows, columns, constraints)
       THEN result' = KeyErrorRaised
       ELSE LET sols == Solutions(students, rows, columns, constraints)
            IN  IF sols = {}
                THEN result' = infeasible_result
                ELSE \E f \in sols : \E st \in SolvedStatuses :
                        result' = success_result(f, st, students, rows, columns,
                                                 constraints)
    /\ pc' = "done"
    /\ UNCHANGED <<tool, rows, columns, num_students, students, constraints,
                   seating_chart>>

NextOptimize == optimize_seating

SpecOptimize == InitOptimize /\ [][NextOptimize]_vars

----------------------------------------------------------------------------
(* explain_solution *)

chart_rows(chart) == Len(chart)
chart_columns(chart) == IF Len(chart) > 0 THEN Len(chart[1]) ELSE 0

Cell(chart, row, col) == chart[row + 1][col + 1]

(* student_positions: the cells are scanned row by row, a later cell holding
   the same id replaces the earlier entry *)
student_positions(chart) ==
    LET r == chart_rows(chart)
        c == chart_columns(chart)
        ids == {Cell(chart, p[1], p[2]) : p \in Seats(r, c)} \ {None}
        cells(s) == {p \in Seats(r, c) : Cell(chart, p[1], p[2]) = s}
    IN  [s \in ids |->
            CHOOSE p \in cells(s) :
                \A q \in cells(s) : q[1] * c + q[2] <= p[1] * c + p[2]]

(* Manhattan distance in place of Chebyshev distance *)
distance_Manhattan(pos1, pos2) == Abs(pos1[1] - pos2[1]) + Abs(pos1[2] - pos2[2])

distance(pos1, pos2) == Max(Abs(pos1[1] - pos2[1]), Abs(pos1[2] - pos2[2]))

(* the entries one constraint appends to `explanations`: one or none *)
explanation_of(k, pos, r) ==
    CASE k.type = "cannot_sit_together" ->
            IF k.student1 \in DOMAIN pos /\ k.student2 \in DOMAIN pos
            THEN << [constraint |-> <<"cannot sit together", k.student1, k.student2>>,
                     satisfied |-> distance(pos[k.student1], pos[k.student2]) > 1,
                     explanation |->
                        <<"seats apart", distance(pos[k.student1], pos[k.student2])>>] >>
            ELSE << >>
      [] k.type = "must_front_row" ->
            IF k.student \in DOMAIN pos
            THEN << [constraint |-> <<"must sit in front row", k.student>>,
                     satisfied |-> pos[k.student][1] = 0,
                     explanation |->
                        <<"Seated in", pos[k.student][1] + 1, pos[k.student][2] + 1>>] >>
            ELSE << >>
      [] k.type = "cannot_back_row" ->
            IF k.student \in DOMAIN pos
            THEN << [constraint |-> <<"cannot sit in back row", k.student>>,
                     satisfied |-> pos[k.student][1] < r - 1,
                     explanation |-> <<"Seated in row", pos[k.student][1] + 1>>] >>
            ELSE << >>
      [] OTHER -> << >>

(* the loop over the constraints, in list order *)
RECURSIVE explanations_upto(_, _, _, _)
explanations_upto(cs, n, pos, r) ==
    IF n = 0 THEN << >>
    ELSE explanations_upto(cs, n - 1, pos, r) \o explanation_of(cs[n], pos, r)

explain_result(chart, cs) ==
    LET exps == explanations_upto(cs, Len(cs), student_positions(chart),
                                  chart_rows(chart))
    IN  [all_constraints_satisfied |-> \A i \in DOMAIN exps : exps[i].satisfied,
         total_constraints |-> Len(cs),
         explanations |-> exps,
         summary |-> <<"Successfully satisfied",
                       Cardinality({i \in DOMAIN exps : exps[i].satisfied}),
                       "out of", Len(cs)>>]

(* rectangular charts of every size with at most MaxStudents occupied cells;
   the same id may occupy more than one cell *)
ChartWith(r, c, occ) ==
    [row1 \in 1..r |-> [col1 \in 1..c |->
        IF <<row1 - 1, col1 - 1>> \in DOMAIN occ
        THEN occ[<<row1 - 1, col1 - 1>>] ELSE None]]

Charts ==
    UNION {{ChartWith(r, c, occ) :
                occ \in UNION {[S -> StudentIds] :
                    S \in {T \in SUBSET Seats(r, c) : Cardinality(T) <= MaxStudents}}} :
           r \in 0..MaxDim, c \in 0..MaxDim}

InitExplain ==
    /\ pc = "call"
    /\ tool = "explain_solution"
    /\ rows = 0
    /\ columns = 0
    /\ num_students = 0
    /\ students = << >>
    /\ constraints \in ConstraintLists
    /\ seating_chart \in Charts
    /\ result = NoResult

explain_solution ==
    /\ pc = "call"
    /\ tool = "explain_solution"
    /\ result' = explain_result(seating_chart, constraints)
    /\ pc' = "done"
    /\ UNCHANGED <<tool, rows, columns, num_students, students, constraints,
                   seating_chart>>

NextExplain == explain_solution

SpecExplain == InitExplain /\ [][NextExplain]_vars

----------------------------------------------------------------------------
(* Any one call of any of the three tools *)

Init == InitValidate \/ InitOptimize \/ InitExplain

Next == validate_constraints \/ optimize_seating \/ explain_solution

Spec == Init /\ [][Next]_vars

----------------------------------------------------------------------------
(* Properties of optimize_seating, checked under SpecOptimize *)

Returned == pc = "done"

Succeeded ==
    /\ Returned
    /\ tool = "optimize_seating"
    /\ "success" \in DOMAIN result
    /\ result.success

DistinctIds(ss) == \A i \in DOMAIN ss : \A j \in DOMAIN ss : ss[i] = ss[j] => i = j

(* the cells of a rectangular chart that hold the value v *)
CellsHolding(chart, v) ==
    {p \in Seats(Len(chart), IF Len(chart) > 0 THEN Len(chart[1]) ELSE 0) :
        chart[p[1] + 1][p[2] + 1] = v}

Chebyshev(p, q) ==
    LET dr == IF p[1] >= q[1] THEN p[1] - q[1] ELSE q[1] - p[1]
        dc == IF p[2] >= q[2] THEN p[2] - q[2] ELSE q[2] - p[2]
    IN  IF dr >= dc THEN dr ELSE dc

(* the chart has one row per grid row and one cell per grid column *)
ChartIsGrid(chart, r, c) ==
    /\ Len(chart) = Cardinality(Range(r))
    /\ \A row1 \in DOMAIN chart : Len(chart[row1]) = Cardinality(Range(c))

(* C1: a successful call with pairwise-distinct student ids returns a chart
   that is a total injective assignment: every student id of the input is in
   exactly one cell of the grid, every occupied cell holds one student of the
   input, as many cells are occupied as there are students, and the number of
   empty cells is the number of cells of the grid minus the number of
   students, which is rows*columns - |students| for every grid (rows and
   columns not negative). *)
C1_TotalInjectiveAssignment ==
    (Succeeded /\ DistinctIds(students)) =>
        LET chart == result.seating_chart
            occupied == UNION {CellsHolding(chart, s) : s \in student_id_set(students)}
        IN  /\ ChartIsGrid(chart, rows, columns)
            /\ \A s \in student_id_set(students) :
                    Cardinality(CellsHolding(chart, s)) = 1
            /\ Cardinality(occupied) = Len(students)
            /\ occupied \cup CellsHolding(chart, None) = Seats(rows, columns)
            /\ Cardinality(CellsHolding(chart, None))
                    = Cardinality(Seats(rows, columns)) - Len(students)
            /\ (rows >= 0 /\ columns >= 0) =>
                    Cardinality(CellsHolding(chart, None))
                        = rows * columns - Len(students)

(* two students seated in a grid that leaves exactly one seat empty *)
C1_Witness ==
    /\ Succeeded
    /\ DistinctIds(students)
    /\ Len(students) = 2
    /\ rows * columns = 3
    /\ Cardinality(CellsHolding(result.seating_chart, None)) = 1

(* C2: after a successful call, for every declared cannot_sit_together
   constraint between two different students of the input, the two seats are
   at Chebyshev distance >= 2, and neither seat is among the neighbours of
   the other. *)
C2_CannotSitTogetherApart ==
    Succeeded =>
        \A i \in DOMAIN constraints :
            LET k == constraints[i] IN
            (/\ k.type = "cannot_sit_together"
             /\ k.student1 # k.student2
             /\ {k.student1, k.student2} \subseteq student_id_set(students)) =>
                /\ CellsHolding(result.seating_chart, k.student1) # {}
                /\ CellsHolding(result.seating_chart, k.student2) # {}
                /\ \A p \in CellsHolding(result.seating_chart, k.student1) :
                   \A q \in CellsHolding(result.seating_chart, k.student2) :
                        /\ Chebyshev(p, q) >= 2
                        /\ ~(p[1] - q[1] \in {-1, 0, 1} /\ p[2] - q[2] \in {-1, 0, 1})
                        /\ ~(q[1] - p[1] \in {-1, 0, 1} /\ q[2] - p[2] \in {-1, 0, 1})

(* a declared pair seated in a grid that has room to keep them apart *)
C2_Witness ==
    /\ Succeeded
    /\ \E i \in DOMAIN constraints :
            /\ constraints[i].type = "cannot_sit_together"
            /\ constraints[i].student1 # constraints[i].student2
            /\ CellsHolding(result.seating_chart, constraints[i].student1) # {}
            /\ CellsHolding(result.seating_chart, constraints[i].student2) # {}
    /\ rows = 3
    /\ columns = 3

(* C3: after a successful call every declared unary hard constraint on a
   student of the input holds on the chart: must_front_row in row 0,
   cannot_back_row in a row < rows-1, cannot_by_window in a column other than
   columns-1, cannot_by_door in a column other than 0. *)
C3_UnaryConstraintsHold ==
    Succeeded =>
        \A i \in DOMAIN constraints :
            LET k == constraints[i]
                at == CellsHolding(result.seating_chart, k.student)
            IN  (k.student \in student_id_set(students)) =>
                    /\ at # {}
                    /\ k.type = "must_front_row" => \A p \in at : p[1] = 0
                    /\ k.type = "cannot_back_row" => \A p \in at : p[1] < rows - 1
                    /\ k.type = "cannot_by_window" => \A p \in at : p[2] # columns - 1
                    /\ k.type = "cannot_by_door" => \A p \in at : p[2] # 0

(* a must_front_row student and a cannot_by_door student, both seated *)
C3_Witness ==
    /\ Succeeded
    /\ Len(constraints) = 2
    /\ constraints[1].type = "must_front_row"
    /\ constraints[2].type = "cannot_by_door"
    /\ constraints[1].student \in student_id_set(students)
    /\ constraints[2].student \in student_id_set(students)
    /\ rows >= 2
    /\ columns >= 2

(* what a hard constraint asks of an assignment g of the students to seats *)
HardConstraintHolds(g, k, r, c) ==
    CASE k.type = "cannot_sit_together" -> Chebyshev(g[k.student1], g[k.student2]) >= 2
      [] k.type = "must_front_row" -> g[k.student][1] = 0
      [] k.type = "cannot_back_row" -> g[k.student][1] < r - 1
      [] k.type = "cannot_by_window" -> g[k.student][2] # c - 1
      [] k.type = "cannot_by_door" -> g[k.student][2] # 0
      [] OTHER -> TRUE

(* the total injective assignments that satisfy every declared hard constraint *)
ValidAssignments(ss, r, c, cs) ==
    {g \in [student_id_set(ss) -> Seats(r, c)] :
        /\ \A s \in DOMAIN g : \A t \in DOMAIN g : g[s] = g[t] => s = t
        /\ \A i \in DOMAIN cs : HardConstraintHolds(g, cs[i], r, c)}

ReferencesOnlyStudents(cs, ss) ==
    \A i \in DOMAIN cs :
        IF cs[i].type = "cannot_sit_together"
        THEN {cs[i].student1, cs[i].student2} \subseteq student_id_set(ss)
        ELSE cs[i].student \in student_id_set(ss)

(* C4: for students with distinct ids and constraints that reference only
   those ids, the call returns success=false, status "infeasible",
   seating_chart null exactly when no valid assignment exists, and
   success=true with status "optimal" or "feasible" whenever one exists. *)
C4_CompleteDecisionProcedure ==
    (/\ Returned
     /\ tool = "optimize_seating"
     /\ DistinctIds(students)
     /\ ReferencesOnlyStudents(constraints, students)) =>
        IF ValidAssignments(students, rows, columns, constraints) = {}
        THEN /\ "success" \in DOMAIN result
             /\ result.success = FALSE
             /\ result.status = "infeasible"
             /\ result.seating_chart = None
        ELSE /\ "success" \in DOMAIN result
             /\ result.success = TRUE
             /\ result.status \in {"optimal", "feasible"}

----------------------------------------------------------------------------
(* Properties of validate_constraints, checked under SpecValidate *)

Validated == pc = "done" /\ tool = "validate_constraints"

(* C5: valid is false exactly when num_students > rows*columns; then errors
   is not empty and no warning was produced; in every other case valid is
   true and errors is empty, whatever the warnings. *)
C5_ValidIffCapacity ==
    Validated =>
        /\ result.valid = ~(num_students > rows * columns)
        /\ result.valid = FALSE => (Len(result.errors) > 0 /\ result.warnings = << >>)
        /\ result.valid = TRUE => result.errors = << >>

(* capacity exceeded although the constraints alone would raise the
   front-row warning: the checks after the capacity error are skipped *)
C5_Witness ==
    /\ Validated
    /\ num_students > rows * columns
    /\ Cardinality({i \in DOMAIN constraints :
                        constraints[i].type = "must_front_row"}) > columns
    /\ columns >= 1
    /\ result.valid = FALSE

(* C6: every result, on the capacity-error path too, has the five fields
   valid, errors, warnings, info {total_seats, students, available_seats} and
   constraint_summary (constraint type -> count in the input). *)
C6_AllFieldsAlways ==
    Validated =>
        /\ {"valid", "errors", "warnings", "info", "constraint_summary"}
                \subseteq DOMAIN result
        /\ DOMAIN result.info = {"total_seats", "students", "available_seats"}
        /\ \A t \in DOMAIN result.constraint_summary :
                result.constraint_summary[t]
                    = Cardinality({i \in DOMAIN constraints :
                        (IF constraints[i].type = None THEN "unknown"
                         ELSE constraints[i].type) = t})

(* the students that have a must_front_row constraint *)
FrontRowStudents(cs) ==
    {cs[i].student : i \in {j \in DOMAIN cs : cs[j].type = "must_front_row"}}

HasFrontRowWarning(res) ==
    \E i \in DOMAIN res.warnings : res.warnings[i][1] = "Front row has only"

(* C9: the front-row capacity warning is added exactly when the number of
   distinct students with a must_front_row constraint exceeds columns, and
   only when num_students <= rows*columns. *)
C9_FrontRowWarningCountsStudents ==
    Validated =>
        (HasFrontRowWarning(result)
            <=> (/\ num_students <= rows * columns
                 /\ Cardinality(FrontRowStudents(constraints)) > columns))

(* C10: non-positive dimensions are a structural input error:
   validate_constraints answers valid=false with an error whenever rows <= 0
   or columns <= 0. *)
C10_NonPositiveDimensionsRejected ==
    Validated =>
        ((rows <= 0 \/ columns <= 0) =>
            (result.valid = FALSE /\ Len(result.errors) > 0))

----------------------------------------------------------------------------
(* Properties of explain_solution, checked under SpecExplain *)

Explained == pc = "done" /\ tool = "explain_solution"

(* the seat a chart gives a student: the last cell, row by row, holding it *)
SeatOf(chart, s) ==
    LET at == CellsHolding(chart, s)
        w == IF Len(chart) > 0 THEN Len(chart[1]) ELSE 0
    IN  CHOOSE p \in at : \A q \in at : q[1] * w + q[2] <= p[1] * w + p[2]

InChart(chart, s) == s # None /\ CellsHolding(chart, s) # {}

NamedTypes == {"cannot_sit_together", "must_front_row", "cannot_back_row"}

(* a constraint of one of the three named types whose students are all seated *)
Explainable(chart, k) ==
    CASE k.type = "cannot_sit_together" ->
            InChart(chart, k.student1) /\ InChart(chart, k.student2)
      [] k.type \in {"must_front_row", "cannot_back_row"} -> InChart(chart, k.student)
      [] OTHER -> FALSE

ExpectedDescription(k) ==
    CASE k.type = "cannot_sit_together" -> <<"cannot sit together", k.student1, k.student2>>
      [] k.type = "must_front_row" -> <<"must sit in front row", k.student>>
      [] k.type = "cannot_back_row" -> <<"cannot sit in back row", k.student>>

ExpectedSatisfied(chart, k) ==
    CASE k.type = "cannot_sit_together" ->
            Chebyshev(SeatOf(chart, k.student1), SeatOf(chart, k.student2)) > 1
      [] k.type = "must_front_row" -> SeatOf(chart, k.student)[1] = 0
      [] k.type = "cannot_back_row" -> SeatOf(chart, k.student)[1] < Len(chart) - 1

IsNamedEntry(e) ==
    e.constraint[1] \in {"cannot sit together", "must sit in front row",
                         "cannot sit in back row"}

(* C7: the entries for cannot_sit_together, must_front_row and cannot_back_row
   are, in constraint order, exactly one entry per constraint of these types
   whose students are all in the chart, with satisfied recomputed from the
   seats (distance > 1, row == 0, row < rows-1); a constraint that references
   a student absent from the chart has no entry; all_constraints_satisfied is
   false as soon as one entry is not satisfied. *)
C7_ExplanationsRecomputed ==
    Explained =>
        LET named == SelectSeq(result.explanations, IsNamedEntry)
            kept == {i \in DOMAIN constraints :
                        Explainable(seating_chart, constraints[i])}
            rank(i) == Cardinality({j \in kept : j <= i})
        IN  /\ Len(named) = Cardinality(kept)
            /\ \A i \in kept :
                    /\ named[rank(i)].constraint = ExpectedDescription(constraints[i])
                    /\ named[rank(i)].satisfied
                            = ExpectedSatisfied(seating_chart, constraints[i])
            /\ (\E n \in DOMAIN result.explanations :
                    ~result.explanations[n].satisfied)
                    => result.all_constraints_satisfied = FALSE

(* a 3x3 chart with two students at distance exactly 1, a must_front_row
   constraint followed by the constraint that the two cannot sit together:
   two entries in constraint order, the second one not satisfied *)
C7_Witness ==
    /\ Explained
    /\ Len(seating_chart) = 3
    /\ Len(seating_chart[1]) = 3
    /\ Len(constraints) = 2
    /\ constraints[1].type = "must_front_row"
    /\ Explainable(seating_chart, constraints[1])
    /\ constraints[2].type = "cannot_sit_together"
    /\ constraints[2].student1 # constraints[2].student2
    /\ Explainable(seating_chart, constraints[2])
    /\ Chebyshev(SeatOf(seating_chart, constraints[2].student1),
                 SeatOf(seating_chart, constraints[2].student2)) = 1
    /\ Len(result.explanations) = 2
    /\ result.explanations[2].satisfied = FALSE
    /\ result.all_constraints_satisfied = FALSE

(* C8: a cannot_by_window (cannot_by_door) constraint whose student is in the
   chart gets an entry with satisfied = (column != columns-1) (column != 0),
   so all_constraints_satisfied is false whenever the chart has a
   cannot_by_window student in the last column or a cannot_by_door student in
   column 0. *)
C8_WindowDoorExplained ==
    Explained =>
        \A i \in DOMAIN constraints :
            LET k == constraints[i]
                w == IF Len(seating_chart) > 0 THEN Len(seating_chart[1]) ELSE 0
            IN  (/\ k.type \in {"cannot_by_window", "cannot_by_door"}
                 /\ InChart(seating_chart, k.student)) =>
                    LET violated ==
                            IF k.type = "cannot_by_window"
                            THEN SeatOf(seating_chart, k.student)[2] = w - 1
                            ELSE SeatOf(seating_chart, k.student)[2] = 0
                    IN  /\ \E n \in DOMAIN result.explanations :
                                /\ result.explanations[n].constraint[2] = k.student
                                /\ result.explanations[n].satisfied = ~violated
                        /\ violated => result.all_constraints_satisfied = FALSE

====
